---- MODULE Spec2Model ----
(***************************************************************************)
(* A model of the generic Bloom filter of package bloom (src/bloom.go,     *)
(* lines 1-134): the sizing computation bloomParams, the constructor       *)
(* NewBloomFilter, and the methods Add, Contains, hashItem and             *)
(* EstimatedFalsePositiveRate of Filter[T].                                *)
(*                                                                         *)
(* Representation of machine values.                                       *)
(*                                                                         *)
(*  uint, uint64.  A value u is held as the integer r with                 *)
(*     u = r             when 0 <= r < Mid,                                *)
(*     u = 2^64 + r      when r < 0          (the top of the range),       *)
(*     u = 2^63          when r = Mid        (the middle of the range).    *)
(*   Within this representation r + c is addition modulo 2^64: -1 + 1 = 0  *)
(*   is the wrap of the counter, (2^64 - 8) + 63 = 55 the wrap of m + 63.  *)
(*                                                                         *)
(*  float64.  A record [kind, v]: kind "fin" holds the number v / Scale    *)
(*   (fixed point, three decimals), "inf" and "huge" hold a sign in v      *)
(*   ("huge": finite, of magnitude 2^63 or more), "nan" is NaN.  The zero  *)
(*   is unsigned; the only division by zero the code performs has the      *)
(*   denominator float64(bf.m) = +0.                                       *)
(*                                                                         *)
(*  []uint64.  A sequence of words, each word the set of its set bit       *)
(*   offsets (a subset of 0..WordBits-1); index i of the Go slice is       *)
(*   index i+1 of the sequence.                                            *)
(*                                                                         *)
(*  maphash.  A Seed is a number of SeedValues, the zero Seed is NoSeed.   *)
(*   A Hash is [seed, state, buf]: its seed, the seed its running state    *)
(*   was started from, and the values chained into that state since.       *)
(*   Sum64 is a fixed mixing function of the running state.                *)
(***************************************************************************)
EXTENDS Integers, Sequences, FiniteSets, TLC

VARIABLES
    bits,       \* bf.bits
    m,          \* bf.m
    seeds,      \* bf.seeds
    hasher,     \* bf.hasher
    entries,    \* bf.entries
    built,      \* NewBloomFilter returned a filter (it did not panic)
    conv,       \* how this build converts an out-of-range float64 to uint
    cfg,        \* the arguments NewBloomFilter was called with
    op,         \* the last method called: "new", "Add", "AddRepeated", "Contains", "EstimatedFalsePositiveRate"
    arg,        \* its item (0 when it takes none)
    ret,        \* the result of the last Contains that returned
    fpr,        \* the result of the last EstimatedFalsePositiveRate
    probes,     \* how many seeds the last Contains hashed
    addressed,  \* the bit positions and word indices the last Add or Contains indexed bf.bits with
    panicked,   \* the run-time panic the last call ended in, "none" when it returned
    added,      \* the items whose Add returned
    refBits,    \* reference model: the union of the positions of the added items
    everAdded,  \* Add has been called at least once
    window,     \* the window of concurrent Contains calls is open
    readers     \* per goroutine: its position in Contains and hashItem

vars == <<bits, m, seeds, hasher, entries, built, conv, cfg, op, arg, ret, fpr,
          probes, addressed, panicked, added, refBits, everAdded, window, readers>>

filterVars == <<bits, m, seeds, hasher, entries>>

---------------------------------------------------------------------------
(* Bounds of the model *)

\* Add is called one call at a time while the counter is below MaxEntries.
MaxEntries == 2
\* maphash.MakeSeed draws from NumSeeds seeds.
NumSeeds == 2
\* The item type has NumItems values.
NumItems == 2
\* Sum64 ranges over 0..HashSpace-1.
HashSpace == 4093
\* AddRepeated leaves the counter WrapMargin calls below its wrap.
WrapMargin == 2
\* The number of goroutines calling Contains concurrently.
NumReaders == 2

Items == 1..NumItems
SeedValues == 1..NumSeeds
NoSeed == 0

---------------------------------------------------------------------------
(* uint and uint64 *)

WordBits == 64
Mid == 2^30
MaxUint == 0 - 1

IsSmall(u) == u >= 0 /\ u < Mid

\* Unsigned order: small values, then the middle, then the top of the range.
URank(u) == IF u < 0 THEN <<2, u>> ELSE IF u >= Mid THEN <<1, 0>> ELSE <<0, u>>
ULess(a, b) ==
    \/ URank(a)[1] < URank(b)[1]
    \/ URank(a)[1] = URank(b)[1] /\ URank(a)[2] < URank(b)[2]

\* max(a, b) on uint
UMax(a, b) == IF ULess(a, b) THEN b ELSE a

\* bf.entries++
IncUint_Saturating(u) == IF u = MaxUint THEN u ELSE u + 1
IncUint(u) == u + 1

\* (m+63)/64 on uint: the sum wraps, the quotient of a value of 2^63 or more is
\* far beyond any slice length.
WordsFor(mm) ==
    LET sum == IF mm >= Mid THEN Mid ELSE mm + (WordBits - 1)
    IN  IF sum >= Mid \/ sum < 0 THEN Mid ELSE sum \div WordBits

\* make([]T, n) panics (len out of range) for a length no allocation can have.
MakeFails(n) == ~IsSmall(n)

\* hash % uint64(bf.m), for bf.m # 0: a hash below 2^63 is its own remainder
\* modulo a larger m.
HashMod(hash, mm) == IF IsSmall(mm) THEN hash % mm ELSE hash

WordIndex_OffByWord(combinedHash) == (combinedHash \div WordBits) + 1
WordIndex(combinedHash) == combinedHash \div WordBits
BitOffset(combinedHash) == combinedHash % WordBits

\* bf.bits[wordIndex] |= 1 << bitOffset, on the word.
OrBit_Assign(word, bitOffset) == {bitOffset}
OrBit(word, bitOffset) == word \cup {bitOffset}
\* bf.bits[wordIndex] & (1 << bitOffset) == 0, on the word.
BitIsZero_NextBit(word, bitOffset) == ((bitOffset + 1) % WordBits) \notin word
BitIsZero(word, bitOffset) == bitOffset \notin word

\* The positions 64*i + j of the set bits of a bit array.
SetBits(bb) == UNION {{(w - 1) * WordBits + j : j \in bb[w]} : w \in DOMAIN bb}

---------------------------------------------------------------------------
(* float64 and package math *)

Scale == 10 * 100

Fin(v) == [kind |-> "fin", v |-> v]
NaN == [kind |-> "nan", v |-> 0]
Inf(s) == [kind |-> "inf", v |-> s]
Huge(s) == [kind |-> "huge", v |-> s]
Zero == Fin(0)
One == Fin(Scale)

Sgn(a) == IF a.v < 0 THEN -1 ELSE 1
IsZero(a) == a.kind = "fin" /\ a.v = 0

\* float64(u) of a uint
FromUint(u) == IF IsSmall(u) THEN Fin(u * Scale) ELSE Huge(1)

FNeg(a) == [a EXCEPT !.v = -a.v]

FMul(a, b) ==
    CASE a.kind = "nan" \/ b.kind = "nan" -> NaN
      [] a.kind = "inf" \/ b.kind = "inf" ->
            IF IsZero(a) \/ IsZero(b) THEN NaN ELSE Inf(Sgn(a) * Sgn(b))
      [] a.kind = "huge" \/ b.kind = "huge" ->
            IF IsZero(a) \/ IsZero(b) THEN Zero ELSE Huge(Sgn(a) * Sgn(b))
      [] OTHER -> Fin((a.v * b.v) \div Scale)

FDiv(a, b) ==
    CASE a.kind = "nan" \/ b.kind = "nan" -> NaN
      [] a.kind = "inf" -> IF b.kind = "inf" THEN NaN ELSE Inf(Sgn(a) * Sgn(b))
      [] b.kind = "inf" -> Zero
      [] IsZero(b) -> IF IsZero(a) THEN NaN ELSE Inf(Sgn(a))
      [] a.kind = "huge" -> IF b.kind = "huge" THEN Fin(Sgn(a) * Sgn(b) * Scale)
                                               ELSE Huge(Sgn(a) * Sgn(b))
      [] b.kind = "huge" -> Zero
      [] OTHER -> Fin((a.v * Scale) \div b.v)

FSub(a, b) ==
    CASE a.kind = "nan" \/ b.kind = "nan" -> NaN
      [] a.kind = "fin" /\ b.kind = "fin" -> Fin(a.v - b.v)
      [] b.kind = "fin" -> a
      [] a.kind = "fin" -> FNeg(b)
      [] OTHER -> IF a.v = b.v THEN NaN ELSE a

\* math.Ceil
Ceil(a) == IF a.kind = "fin" THEN Fin(-(((-a.v) \div Scale) * Scale)) ELSE a

\* math.Log at the rates the model constructs filters with (and at 2), to three
\* decimals; the rate is given in thousandths.
Log(pm) ==
    CASE pm < 0 -> NaN
      [] pm = 0 -> Inf(-1)
      [] pm = 100 -> Fin(-2303)
      [] pm = 300 -> Fin(-1204)
      [] pm = 999 -> Fin(-1)
      [] pm = 1000 -> Zero
      [] pm = 1500 -> Fin(405)
      [] pm = 2000 -> Fin(693)

\* math.Pow(a, n) for a whole n >= 0
RECURSIVE Pow(_, _)
Pow(a, n) == IF n = 0 THEN One ELSE FMul(a, Pow(a, n - 1))

\* exp(-x / Scale) for x >= 0, to four decimals: e^-1 per whole unit, the Taylor
\* series for the fraction.
RECURSIVE ExpNegWhole(_, _)
ExpNegWhole(val, q) == IF q = 0 \/ val = 0 THEN val ELSE ExpNegWhole((val * 3679) \div 10000, q - 1)
RECURSIVE ExpNegSeries(_, _, _)
ExpNegSeries(term, r, i) ==
    IF term = 0 \/ i > 12 THEN 0
    ELSE term - ExpNegSeries((term * r) \div (Scale * i), r, i + 1)
ExpNeg(x) == ExpNegWhole(ExpNegSeries(10000, x % Scale, 1), x \div Scale)

\* math.Exp
Exp(a) ==
    CASE a.kind = "nan" -> NaN
      [] a.kind \in {"inf", "huge"} -> IF a.v < 0 THEN Zero ELSE Inf(1)
      [] a.v <= 0 -> Fin((ExpNeg(-a.v) * Scale) \div 10000)
      [] OTHER -> IF ExpNeg(a.v) = 0 THEN Inf(1)
                  ELSE Fin((10000 * Scale) \div ExpNeg(a.v))

\* uint(f): the fraction is discarded; a value uint cannot represent converts to
\* an implementation-dependent value.  "wrap": the conversion goes through the
\* signed 64-bit conversion (a negative value wraps, NaN and the infinities give
\* 2^63).  "saturate": the conversion saturates (NaN and negative values give 0,
\* +Inf gives the largest uint).
Conversions == {"wrap", "saturate"}
ToUint(f, c) ==
    CASE f.kind = "fin" /\ f.v >= 0 -> f.v \div Scale
      [] f.kind = "fin" /\ f.v > -Scale -> 0
      [] f.kind = "fin" -> IF c = "wrap" THEN -((-f.v) \div Scale) ELSE 0
      [] f.kind = "nan" -> IF c = "wrap" THEN Mid ELSE 0
      [] f.v < 0 -> IF c = "wrap" THEN Mid ELSE 0
      [] OTHER -> IF c = "wrap" THEN Mid ELSE MaxUint

---------------------------------------------------------------------------
(* bloomParams *)

bloomParams(expectedItems, falsePositiveRate, c) ==
    LET n == FromUint(expectedItems)
        p == falsePositiveRate
        mf == FDiv(FMul(FNeg(n), Log(p)), Pow(Log(2000), 2))
        bitsNeeded == ToUint(Ceil(mf), c)
        kf == FMul(FDiv(mf, n), Log(2000))
        numHashFunctions == ToUint(Ceil(kf), c)
    IN  [bitsNeeded |-> bitsNeeded,
         numHashFunctions |-> UMax(numHashFunctions, 1)]

---------------------------------------------------------------------------
(* hash/maphash *)

\* (*Hash).Reset: the written values are dropped; a Hash that has no seed yet
\* draws one (fresh).
\* Reset first makes sure of a seed (InitSeed), then loads h.seed and stores it
\* as the running state (ResetStore).
InitSeed(h, fresh) ==
    IF h.seed = NoSeed THEN [seed |-> fresh, state |-> fresh, buf |-> <<>>] ELSE h
ResetStore(h, seed) == [h EXCEPT !.state = seed, !.buf = <<>>]
Reset(h, fresh) == ResetStore(InitSeed(h, fresh), InitSeed(h, fresh).seed)
\* (*Hash).SetSeed: the seed is replaced and the written values are dropped.
SetSeed(h, seed) == [seed |-> seed, state |-> seed, buf |-> <<>>]
\* maphash.WriteComparable loads the running state (LoadState), chains the
\* value into what it loaded and stores the result (StoreState).
LoadState(h) == [state |-> h.state, buf |-> h.buf]
StoreState(h, loaded, item) ==
    [h EXCEPT !.state = loaded.state, !.buf = Append(loaded.buf, item)]
WriteComparable(h, item) == StoreState(h, LoadState(h), item)
\* (*Hash).Sum64: a function of the running state, that is of the seed it was
\* started from and of everything chained into it.
RECURSIVE Mix(_, _)
Mix(acc, buf) ==
    IF buf = <<>> THEN acc
    ELSE Mix((acc * 31 + Head(buf) * 1009 + 17) % HashSpace, Tail(buf))
Sum64(h) == Mix((h.state * 2647) % HashSpace, h.buf)

\* hashItem: the hash, and the hasher it leaves in the filter.  The seed Reset
\* may draw is replaced by SetSeed at once.
hashItem(h, item, seed) ==
    LET h3 == WriteComparable(SetSeed(Reset(h, seed), seed), item)
    IN  [hash |-> Sum64(h3), hasher |-> h3]

---------------------------------------------------------------------------
(* The filter *)

ExpectedItemsInputs == {0, 1, 30}
\* falsePositiveRate, in thousandths
RateInputs == {0, 300, 999, 1000, 1500}

NoFilter == [built |-> FALSE, bits |-> <<>>, m |-> 0, seeds |-> <<>>,
             hasher |-> [seed |-> NoSeed, state |-> NoSeed, buf |-> <<>>], entries |-> 0]

\* NewBloomFilter; draws are the seeds maphash.MakeSeed returns.  A make with an
\* impossible length panics and no filter is returned.
NewBloomFilter(expectedItems, falsePositiveRate, c, draws) ==
    LET params == bloomParams(expectedItems, falsePositiveRate, c)
        mm == params.bitsNeeded
        k == params.numHashFunctions
    IN  IF MakeFails(k) \/ MakeFails(WordsFor(mm)) THEN NoFilter
        ELSE [built |-> TRUE,
              bits |-> [w \in 1..WordsFor(mm) |-> {}],
              m |-> mm,
              seeds |-> [i \in 1..k |-> draws[i]],
              hasher |-> [seed |-> NoSeed, state |-> NoSeed, buf |-> <<>>],
              entries |-> 0]

SeedCount(expectedItems, falsePositiveRate, c) ==
    LET k == bloomParams(expectedItems, falsePositiveRate, c).numHashFunctions
    IN  IF MakeFails(k) THEN 0 ELSE k

Init ==
    \E n \in ExpectedItemsInputs, p \in RateInputs, c \in Conversions :
      \E draws \in [1..SeedCount(n, p, c) -> SeedValues] :
        LET bf == NewBloomFilter(n, p, c, draws)
        IN  /\ built = bf.built
            /\ bits = bf.bits
            /\ m = bf.m
            /\ seeds = bf.seeds
            /\ hasher = bf.hasher
            /\ entries = bf.entries
            /\ conv = c
            /\ cfg = [expectedItems |-> n, falsePositiveRate |-> p]
            /\ op = "new"
            /\ arg = 0
            /\ ret = FALSE
            /\ fpr = Zero
            /\ probes = 0
            /\ addressed = {}
            /\ panicked = "none"
            /\ added = {}
            /\ refBits = {}
            /\ everAdded = FALSE
            /\ window = FALSE
            /\ readers = [g \in 1..NumReaders |->
                            [pc |-> "idle", item |-> 0, i |-> 0, ret |-> FALSE,
                             loaded |-> [state |-> NoSeed, buf |-> <<>>]]]

\* The loop of Add from seed i on.  st is [bits, hasher, panicked, addressed];
\* a panic ends the call where it happens.
RECURSIVE AddLoop(_, _, _)
AddLoop(i, item, st) ==
    IF i > Len(seeds) \/ st.panicked # "none" THEN st
    ELSE LET hi == hashItem(st.hasher, item, seeds[i])
         IN  IF m = 0
             THEN [st EXCEPT !.hasher = hi.hasher, !.panicked = "integer divide by zero"]
             ELSE LET combinedHash == HashMod(hi.hash, m)
                      wordIndex == WordIndex(combinedHash)
                      bitOffset == BitOffset(combinedHash)
                      at == st.addressed \cup {[pos |-> combinedHash, word |-> wordIndex]}
                  IN  IF wordIndex >= Len(st.bits)
                      THEN [st EXCEPT !.hasher = hi.hasher, !.addressed = at,
                                      !.panicked = "index out of range"]
                      ELSE AddLoop(i + 1, item,
                                   [st EXCEPT !.hasher = hi.hasher, !.addressed = at,
                                              !.bits[wordIndex + 1] = OrBit(@, bitOffset)])

\* The loop of Contains from seed i on.  st is [ret, probes, hasher, panicked,
\* addressed]; the first zero bit ends the call with false.
RECURSIVE ContainsLoop(_, _, _)
ContainsLoop(i, item, st) ==
    IF i > Len(seeds) THEN [st EXCEPT !.ret = TRUE]
    ELSE LET hi == hashItem(st.hasher, item, seeds[i])
             s1 == [st EXCEPT !.hasher = hi.hasher, !.probes = i]
         IN  IF m = 0
             THEN [s1 EXCEPT !.panicked = "integer divide by zero"]
             ELSE LET combinedHash == HashMod(hi.hash, m)
                      wordIndex == WordIndex(combinedHash)
                      bitOffset == BitOffset(combinedHash)
                      s2 == [s1 EXCEPT !.addressed = @ \cup {[pos |-> combinedHash, word |-> wordIndex]}]
                  IN  IF wordIndex >= Len(bits)
                      THEN [s2 EXCEPT !.panicked = "index out of range"]
                      ELSE IF BitIsZero(bits[wordIndex + 1], bitOffset)
                      THEN [s2 EXCEPT !.ret = FALSE]
                      ELSE ContainsLoop(i + 1, item, s2)

\* The positions the reference model gives an item: hash(seed_i, item) mod m.
Positions(item) == {Sum64([seed |-> seeds[i], state |-> seeds[i], buf |-> <<item>>]) % m : i \in 1..Len(seeds)}

\* Add
Add(item) ==
    /\ built /\ ~window
    /\ entries < 0 \/ entries < MaxEntries
    /\ LET st == AddLoop(1, item, [bits |-> bits, hasher |-> hasher,
                                   panicked |-> "none", addressed |-> {}])
       IN  /\ entries' = IncUint(entries)
           /\ bits' = st.bits
           /\ hasher' = st.hasher
           /\ panicked' = st.panicked
           /\ addressed' = st.addressed
           /\ added' = IF st.panicked = "none" THEN added \cup {item} ELSE added
           /\ refBits' = IF st.panicked = "none" THEN refBits \cup Positions(item) ELSE refBits
    /\ op' = "Add" /\ arg' = item /\ everAdded' = TRUE
    /\ UNCHANGED <<m, seeds, built, conv, cfg, ret, fpr, probes, window, readers>>

\* A run of further Add calls of an item that is in the filter already, up to
\* WrapMargin calls before the counter wraps: each call raises the counter and
\* sets bits that are set already.
AddRepeated(item) ==
    /\ built /\ ~window
    /\ item \in added
    /\ entries > 0
    /\ entries' = 0 - WrapMargin
    /\ hasher' = AddLoop(1, item, [bits |-> bits, hasher |-> hasher,
                                   panicked |-> "none", addressed |-> {}]).hasher
    /\ addressed' = AddLoop(1, item, [bits |-> bits, hasher |-> hasher,
                                      panicked |-> "none", addressed |-> {}]).addressed
    /\ op' = "AddRepeated" /\ arg' = item /\ panicked' = "none"
    /\ UNCHANGED <<bits, m, seeds, built, conv, cfg, ret, fpr, probes,
                   added, refBits, everAdded, window, readers>>

\* Contains
Contains(item) ==
    /\ built /\ ~window
    /\ LET st == ContainsLoop(1, item, [ret |-> ret, probes |-> 0, hasher |-> hasher,
                                        panicked |-> "none", addressed |-> {}])
       IN  /\ ret' = st.ret
           /\ probes' = st.probes
           /\ hasher' = st.hasher
           /\ panicked' = st.panicked
           /\ addressed' = st.addressed
    /\ op' = "Contains" /\ arg' = item
    /\ UNCHANGED <<bits, m, seeds, entries, built, conv, cfg, fpr, added, refBits,
                   everAdded, window, readers>>

\* The value EstimatedFalsePositiveRate returns for a filter with these fields,
\* without the case of the empty filter.
FalsePositiveRate_NoEmptyCase(bfEntries, bfSeeds, bfM) ==
    LET k == FromUint(Len(bfSeeds))
        n == FromUint(bfEntries)
        mf == FromUint(bfM)
        probBitIsZero == Exp(FDiv(FMul(FNeg(k), n), mf))
        probBitIsOne == FSub(One, probBitIsZero)
    IN  Pow(probBitIsOne, Len(bfSeeds))

\* The value EstimatedFalsePositiveRate returns for a filter with these fields.
FalsePositiveRate(bfEntries, bfSeeds, bfM) ==
    IF bfEntries = 0 THEN Zero
    ELSE LET k == FromUint(Len(bfSeeds))
             n == FromUint(bfEntries)
             mf == FromUint(bfM)
             probBitIsZero == Exp(FDiv(FMul(FNeg(k), n), mf))
             probBitIsOne == FSub(One, probBitIsZero)
         IN  Pow(probBitIsOne, Len(bfSeeds))

\* EstimatedFalsePositiveRate
EstimatedFalsePositiveRate ==
    /\ built /\ ~window
    /\ fpr' = FalsePositiveRate(entries, seeds, m)
    /\ op' = "EstimatedFalsePositiveRate" /\ arg' = 0 /\ panicked' = "none"
    /\ UNCHANGED <<bits, m, seeds, hasher, entries, built, conv, cfg, ret, probes,
                   addressed, added, refBits, everAdded, window, readers>>

Next ==
    \/ \E item \in Items : Add(item)
    \/ \E item \in Items : AddRepeated(item)
    \/ \E item \in Items : Contains(item)
    \/ EstimatedFalsePositiveRate

Spec == Init /\ [][Next]_vars

---------------------------------------------------------------------------
(* Contains called from several goroutines at once.  Each goroutine runs the *)
(* statements of Contains and hashItem on the one bf.hasher, which no lock   *)
(* guards: a statement that loads a field of the hasher and stores a value   *)
(* computed from it is two steps, and other goroutines run between them.     *)

\* The test's window opens on a filter that holds items; no Add runs in it.
OpenWindow ==
    /\ built /\ ~window
    /\ added # {}
    /\ window' = TRUE
    /\ UNCHANGED <<bits, m, seeds, hasher, entries, built, conv, cfg, op, arg, ret,
                   fpr, probes, addressed, panicked, added, refBits, everAdded, readers>>

ReaderFrame == UNCHANGED <<bits, m, seeds, entries, built, conv, cfg, op, arg, ret, fpr,
                           probes, addressed, panicked, added, refBits, everAdded, window>>

\* go bf.Contains(item): the loop starts at the first seed.
ReaderCall(g, item) ==
    /\ window /\ readers[g].pc = "idle"
    /\ readers' = [readers EXCEPT ![g] =
                      [pc |-> "Reset", item |-> item, i |-> 1, ret |-> FALSE,
                       loaded |-> [state |-> NoSeed, buf |-> <<>>]]]
    /\ UNCHANGED hasher
    /\ ReaderFrame

\* bf.hasher.Reset(), first half: the seed is made sure of and loaded.
ReaderResetLoad(g) ==
    /\ window /\ readers[g].pc = "Reset"
    /\ \E fresh \in SeedValues :
          /\ hasher' = InitSeed(hasher, fresh)
          /\ readers' = [readers EXCEPT ![g].pc = "ResetStore",
                                        ![g].loaded = [state |-> InitSeed(hasher, fresh).seed,
                                                       buf |-> <<>>]]
    /\ ReaderFrame

\* bf.hasher.Reset(), second half: the loaded seed is stored as the state.
ReaderReset(g) ==
    /\ window /\ readers[g].pc = "ResetStore"
    /\ hasher' = ResetStore(hasher, readers[g].loaded.state)
    /\ readers' = [readers EXCEPT ![g].pc = "SetSeed"]
    /\ ReaderFrame

\* bf.hasher.SetSeed(seed)
ReaderSetSeed(g) ==
    /\ window /\ readers[g].pc = "SetSeed"
    /\ hasher' = SetSeed(hasher, seeds[readers[g].i])
    /\ readers' = [readers EXCEPT ![g].pc = "WriteComparable"]
    /\ ReaderFrame

\* maphash.WriteComparable(&bf.hasher, item), first half: the running state
\* is loaded.
ReaderWriteLoad(g) ==
    /\ window /\ readers[g].pc = "WriteComparable"
    /\ readers' = [readers EXCEPT ![g].pc = "WriteStore",
                                  ![g].loaded = LoadState(hasher)]
    /\ UNCHANGED hasher
    /\ ReaderFrame

\* maphash.WriteComparable(&bf.hasher, item), second half: the state chained
\* from the loaded one is stored, over whatever the others stored meanwhile.
ReaderWrite(g) ==
    /\ window /\ readers[g].pc = "WriteStore"
    /\ hasher' = StoreState(hasher, readers[g].loaded, readers[g].item)
    /\ readers' = [readers EXCEPT ![g].pc = "Sum64"]
    /\ ReaderFrame

\* return bf.hasher.Sum64(), and the test of the bit in Contains
ReaderSum(g) ==
    /\ window /\ readers[g].pc = "Sum64"
    /\ LET combinedHash == HashMod(Sum64(hasher), m)
           wordIndex == WordIndex(combinedHash)
           bitOffset == BitOffset(combinedHash)
       IN  readers' = [readers EXCEPT ![g] =
              IF BitIsZero(bits[wordIndex + 1], bitOffset)
              THEN [@ EXCEPT !.pc = "done", !.ret = FALSE]
              ELSE IF @.i = Len(seeds)
              THEN [@ EXCEPT !.pc = "done", !.ret = TRUE]
              ELSE [@ EXCEPT !.pc = "Reset", !.i = @ + 1]]
    /\ UNCHANGED hasher
    /\ ReaderFrame

NextConcurrent ==
    \/ \E item \in Items : Add(item)
    \/ OpenWindow
    \/ \E g \in 1..NumReaders, item \in Items : ReaderCall(g, item)
    \/ \E g \in 1..NumReaders : ReaderResetLoad(g)
    \/ \E g \in 1..NumReaders : ReaderReset(g)
    \/ \E g \in 1..NumReaders : ReaderSetSeed(g)
    \/ \E g \in 1..NumReaders : ReaderWriteLoad(g)
    \/ \E g \in 1..NumReaders : ReaderWrite(g)
    \/ \E g \in 1..NumReaders : ReaderSum(g)

SpecConcurrent == Init /\ [][NextConcurrent]_vars

\* What a sequential Contains(item) returns in the current state.
SequentialContains(item) ==
    ContainsLoop(1, item, [ret |-> FALSE, probes |-> 0, hasher |-> hasher,
                           panicked |-> "none", addressed |-> {}]).ret

---------------------------------------------------------------------------
(* Properties *)

\* ceil(m / 64) as a number of words; beyond any slice length for m >= 2^63.
CeilWords(mm) == IF IsSmall(mm) THEN (mm + (WordBits - 1)) \div WordBits ELSE Mid

\* The index of the first seed whose position of the item is a zero bit, and
\* Len(seeds) + 1 when there is none.
FirstZero(item) ==
    LET zero == {i \in 1..Len(seeds) :
                    (Sum64([seed |-> seeds[i], state |-> seeds[i], buf |-> <<item>>]) % m) \notin SetBits(bits)}
    IN  IF zero = {} THEN Len(seeds) + 1
        ELSE CHOOSE i \in zero : \A j \in zero : i <= j

\* C1: no false negatives.  In every reachable state Contains returns true for
\* every item whose Add has returned, whatever was added afterwards, and a
\* Contains call that has just returned for such an item returned true.
NoFalseNegatives ==
    /\ \A x \in added : SequentialContains(x) = TRUE
    /\ (op = "Contains" /\ panicked = "none" /\ arg \in added) => ret = TRUE

\* C1 witness: two items are in a 76-bit filter and Contains has returned true
\* for one of them.
NoFalseNegativesWitness ==
    /\ op = "Contains" /\ arg \in added /\ ret = TRUE
    /\ Cardinality(added) = 2 /\ m = 76 /\ Cardinality(SetBits(bits)) >= 3

\* C2: read concurrency.  Every Contains call that ran concurrently with other
\* Contains calls, and with no Add, returns what a sequential Contains returns on
\* the filter as it was when the window opened (the bit array, m and the seeds
\* do not change in the window).
ConcurrentContainsAgree ==
    \A g \in 1..NumReaders :
        readers[g].pc = "done" => readers[g].ret = SequentialContains(readers[g].item)

\* C3: monotonic bits.  No step clears a bit: the set bits after a step include
\* the set bits before it, word by word.
MonotonicBits ==
    [][/\ Len(bits') = Len(bits)
       /\ \A w \in DOMAIN bits : bits[w] \subseteq bits'[w]
       /\ SetBits(bits) \subseteq SetBits(bits')]_vars

\* C3 witness: a second item has been added to a filter that held bits of a
\* first one.
MonotonicBitsWitness ==
    /\ op = "Add" /\ Cardinality(added) = 2 /\ entries = 2
    /\ Cardinality(SetBits(bits)) = 4 /\ Len(bits) = 2

\* C4: empty-filter rate.  EstimatedFalsePositiveRate on a filter that has
\* received no Add call returns exactly 0, for every construction and after any
\* number of Contains calls.
EmptyFilterRate ==
    (built /\ op = "EstimatedFalsePositiveRate" /\ ~everAdded) => fpr = Zero

\* C4 witness: the estimate was taken on a 76-bit filter that never received an
\* Add, after a Contains call that hashed an item.
EmptyFilterRateWitness ==
    /\ built /\ op = "EstimatedFalsePositiveRate" /\ ~everAdded
    /\ m = 76 /\ hasher.buf # <<>> /\ entries = 0 /\ fpr = Zero

\* C5: no operation on a constructed filter fails: no call ends in a run-time
\* panic.
NoOperationFails == built => panicked = "none"

\* C6: every constructed filter has m >= 1 and k >= 1 seeds.
SizeMinimum == built => (m # 0 /\ Len(seeds) >= 1)

\* C7, as claimed: entries never decreases and, once an Add has been made, is
\* never 0 again; Add raises it by one and no other operation changes it.
EntriesOneWay ==
    [][/\ ~ULess(entries', entries)
       /\ everAdded' => entries' # 0
       /\ (op' \in {"Contains", "EstimatedFalsePositiveRate"}) => entries' = entries]_vars

\* C7, amended: entries starts at 0; every Add raises it by exactly 1 modulo
\* 2^64, also on an item added before; no other operation changes it; it comes
\* back to 0 only by the Add made at the largest value of the counter.
EntriesCountModulo ==
    /\ entries = 0
    /\ [][/\ op' = "Add" => entries' = (IF entries = MaxUint THEN 0 ELSE entries + 1)
          /\ op' = "AddRepeated" => (ULess(entries, entries') /\ entries' # 0)
          /\ (op' \in {"Contains", "EstimatedFalsePositiveRate"}) => entries' = entries
          /\ (entries # 0 /\ entries' = 0) => (op' = "Add" /\ entries = MaxUint)]_vars

\* C7 witness: the Add that wrapped the counter: the filter holds bits and
\* entries is 0.
EntriesCountModuloWitness ==
    op = "Add" /\ everAdded /\ entries = 0 /\ SetBits(bits) # {} /\ arg \in added

\* C8: the filter agrees with the reference model.  The set bits are exactly the
\* union of the positions hash(seed_i, item) mod m of the added items, and a
\* Contains call that returned gave true exactly when all positions of its item
\* are set, after hashing the seeds up to the first one whose bit is zero.
AgreesWithReference ==
    /\ SetBits(bits) = refBits
    /\ (op = "Contains" /\ panicked = "none") =>
          /\ ret = (Positions(arg) \subseteq SetBits(bits))
          /\ ret = (FirstZero(arg) = Len(seeds) + 1)
          /\ probes = (IF ret THEN Len(seeds) ELSE FirstZero(arg))

\* C8 witness: after a repeated Add, Contains returned false at the first seed of
\* an item that was not added, without hashing the second.
AgreesWithReferenceWitness ==
    /\ op = "Contains" /\ panicked = "none" /\ ~ret
    /\ probes = 1 /\ Len(seeds) = 2
    /\ added # {} /\ entries > Cardinality(added)

\* C9: Contains and EstimatedFalsePositiveRate change no field of
\* the filter, the hasher included, and Add leaves m and the seeds unchanged.
PureReads ==
    [][/\ (op' \in {"Contains", "EstimatedFalsePositiveRate"}) =>
              UNCHANGED filterVars
       /\ (op' \in {"Add", "AddRepeated"}) => UNCHANGED <<m, seeds>>]_vars

\* C10: the storage holds ceil(m / 64) words, every position Add or Contains
\* indexed the array with is below m and its word index below the number of
\* words, and no bit at position m or above is set.
AddressingInsideArray ==
    built =>
        /\ Len(bits) = CeilWords(m)
        /\ \A a \in addressed : ULess(a.pos, m) /\ a.word < Len(bits)
        /\ \A b \in SetBits(bits) : ULess(b, m)

====
